---- MODULE Spec2Model ----
(***************************************************************************)
(* A model of contact_manager.py: the Field classes and their validators,  *)
(* the Record operations, and the AddressBook with its sqlite table.       *)
(*                                                                         *)
(* A Python str is a tuple of one-character strings, so that strip, the    *)
(* email pattern, strptime, ', '.join and split(', ') are computed on the  *)
(* characters.  None (and SQL NULL) is the tuple <<"None">>, which is no   *)
(* string over the alphabet.                                               *)
(***************************************************************************)
EXTENDS Integers, Sequences, FiniteSets, TLC

\* recs: the Record objects a caller holds outside any book
\* data: the AddressBook's dict, in insertion order: <<[key, rec], ...>>
\* rows: the rows of the contacts table, in rowid order
\* last: the last call: its name, its arguments, what it raised or returned
VARIABLES recs, data, rows, last

vars == <<recs, data, rows, last>>

None == <<"None">>

(***************************************************************************)
(* Bounds of the model.                                                    *)
(***************************************************************************)
\* Phones one Record holds in the record-level specification.
MaxPhones == 2

(***************************************************************************)
(* Characters.                                                             *)
(***************************************************************************)
Digits == {"0", "1", "2", "3", "4", "5", "6", "7", "8", "9"}

Letters == {"a", "b", "c", "d", "e", "f", "l", "o", "A", "B", "J"}

\* \w of the re module, over the alphabet used here
WordChars == Letters \cup Digits \cup {"_"}

Whitespace == {" "}

DigitVal(c) ==
  CASE c = "0" -> 0 [] c = "1" -> 1 [] c = "2" -> 2 [] c = "3" -> 3
    [] c = "4" -> 4 [] c = "5" -> 5 [] c = "6" -> 6 [] c = "7" -> 7
    [] c = "8" -> 8 [] c = "9" -> 9

\* str.isdigit: non-empty and every character a digit
isdigit(s) == Len(s) > 0 /\ \A i \in 1..Len(s) : s[i] \in Digits

\* s[i:j] with 1-based inclusive bounds; empty when j < i
Slice(s, i, j) == IF j < i THEN <<>> ELSE SubSeq(s, i, j)

RECURSIVE lstrip(_)
lstrip(s) ==
  IF s # <<>> /\ Head(s) \in Whitespace THEN lstrip(Tail(s)) ELSE s

RECURSIVE rstrip(_)
rstrip(s) ==
  IF s # <<>> /\ s[Len(s)] \in Whitespace
    THEN rstrip(SubSeq(s, 1, Len(s) - 1))
    ELSE s

strip(s) == rstrip(lstrip(s))

(***************************************************************************)
(* The validators of the Field classes.                                    *)
(***************************************************************************)
\* Name.is_valid_name
is_valid_name(value) == Len(strip(value)) > 0

\* The number of digits Phone.__init__ asks for
PhoneLen == 10

\* Phone.__init__ accepts value
PhoneOk(value) == ~(Len(value) # PhoneLen \/ ~isdigit(value))

\* re.match(r'[a-zA-Z][\w.]+@\w{2,}\.\w{2,3}', value): a match at the start
\* of value, whatever follows it.  i is the last character of [\w.]+ and k
\* the last of \w{2,}; \w{2,3} is satisfied by its first two characters.
EmailPatternMatches(value) ==
  \E i \in 2..Len(value) : \E k \in (i + 3)..Len(value) :
    /\ k + 3 <= Len(value)
    /\ value[1] \in Letters
    /\ \A j \in 2..i : value[j] \in WordChars \cup {"."}
    /\ value[i + 1] = "@"
    /\ \A j \in (i + 2)..k : value[j] \in WordChars
    /\ value[k + 1] = "."
    /\ value[k + 2] \in WordChars
    /\ value[k + 3] \in WordChars

\* Email.is_valid, for a str
Email_is_valid(value) == EmailPatternMatches(value) \/ value = <<>>

\* int() of a string of digits
RECURSIVE ToInt(_)
ToInt(s) ==
  IF s = <<>> THEN 0 ELSE 10 * ToInt(SubSeq(s, 1, Len(s) - 1)) + DigitVal(s[Len(s)])

IsLeap(y) == (y % 4 = 0 /\ y % 100 # 0) \/ y % 400 = 0

DaysInMonth(y, m) ==
  IF m = 2 THEN (IF IsLeap(y) THEN 29 ELSE 28)
  ELSE IF m \in {4, 6, 9, 11} THEN 30 ELSE 31

\* The strings %m matches: 1[0-2]|0[1-9]|[1-9]
MonthText(s) ==
  /\ isdigit(s) /\ Len(s) \in {1, 2}
  /\ ToInt(s) \in 1..12

\* The strings %d matches: 3[01]|[12]\d|0[1-9]|[1-9]| [1-9]
DayText(s) ==
  \/ isdigit(s) /\ Len(s) \in {1, 2} /\ ToInt(s) \in 1..31
  \/ Len(s) = 2 /\ s[1] = " " /\ s[2] \in Digits \ {"0"}

\* datetime.strptime(value, "%Y-%m-%d"): the date <<y, m, d>>, or None where
\* strptime raises ValueError.  q is the position of the second hyphen.
strptime(value) ==
  IF \E q \in {7, 8} :
       /\ Len(value) > q
       /\ isdigit(Slice(value, 1, 4))
       /\ value[5] = "-"
       /\ value[q] = "-"
       /\ MonthText(Slice(value, 6, q - 1))
       /\ DayText(Slice(value, q + 1, Len(value)))
       /\ ToInt(Slice(value, 1, 4)) >= 1
       /\ ToInt(lstrip(Slice(value, q + 1, Len(value))))
            <= DaysInMonth(ToInt(Slice(value, 1, 4)), ToInt(Slice(value, 6, q - 1)))
  THEN LET q == CHOOSE p \in {7, 8} : Len(value) > p /\ value[p] = "-"
                                       /\ MonthText(Slice(value, 6, p - 1))
       IN <<ToInt(Slice(value, 1, 4)),
            ToInt(Slice(value, 6, q - 1)),
            ToInt(lstrip(Slice(value, q + 1, Len(value))))>>
  ELSE None

\* Birthday.__init__ and the Birthday.value setter accept value
BirthdayOk(value) == strptime(value) # None

(***************************************************************************)
(* Values as Python passes them: a str, None, or a Field object.           *)
(***************************************************************************)
Str(v) == [kind |-> "str", v |-> v]

NoneArg == [kind |-> "NoneType", v |-> None]

FieldObj(v) == [kind |-> "Field", v |-> v]

\* bool(x): None and '' are false, any other str and any object are true
Truthy(x) == x.kind = "Field" \/ (x.kind = "str" /\ x.v # <<>>)

\* A str-or-None value of the model as an argument
Arg(v) == IF v = None THEN NoneArg ELSE Str(v)

Ok(rec) == [exc |-> "None", rec |-> rec]

Raise(exc, rec) == [exc |-> exc, rec |-> rec]

(***************************************************************************)
(* Record.                                                                 *)
(***************************************************************************)
\* Email(value): "None" when the object is built, else the exception.
\* re.match raises TypeError for a value that is not a str.
EmailInit(x) ==
  IF x.kind # "str" THEN "TypeError"
  ELSE IF ~Email_is_valid(x.v) THEN "ValueError"
  ELSE "None"

\* Birthday(value): strptime raises TypeError for a value that is not a str
BirthdayInit(x) ==
  IF x.kind # "str" THEN "TypeError"
  ELSE IF ~BirthdayOk(x.v) THEN "ValueError"
  ELSE "None"

\* Record(name, phones, email, birthday): the fields are built in the order
\* name, phones, email, birthday and the first exception ends the call.
\* name is a str, phones a list of str; email and birthday as passed.
Record__init__(name, phones, email, birthday) ==
  LET rec == [name |-> name,
              phones |-> phones,
              email |-> IF Truthy(email) THEN email.v ELSE None,
              birthday |-> IF Truthy(birthday) THEN birthday.v ELSE None]
  IN IF ~is_valid_name(name) THEN Raise("ValueError", rec)
     ELSE IF \E i \in 1..Len(phones) : ~PhoneOk(phones[i])
       THEN Raise("ValueError", rec)
     ELSE IF Truthy(email) /\ EmailInit(email) # "None"
       THEN Raise(EmailInit(email), rec)
     ELSE IF Truthy(birthday) /\ BirthdayInit(birthday) # "None"
       THEN Raise(BirthdayInit(birthday), rec)
     ELSE Ok(rec)

\* The index of the first phone p with str(p) == phone, 0 when there is none
FirstIndex(phones, phone) ==
  IF \E i \in 1..Len(phones) : phones[i] = phone
    THEN CHOOSE i \in 1..Len(phones) :
           phones[i] = phone /\ \A j \in 1..(i - 1) : phones[j] # phone
    ELSE 0

\* Record.add_phone
add_phone(rec, phone) ==
  IF ~PhoneOk(phone) THEN Raise("ValueError", rec)
  ELSE Ok([rec EXCEPT !.phones = Append(@, phone)])

\* Record.remove_phone
remove_phone(rec, phone) ==
  LET i == FirstIndex(rec.phones, phone)
  IN IF i = 0 THEN Ok(rec)
     ELSE Ok([rec EXCEPT !.phones =
                SubSeq(@, 1, i - 1) \o SubSeq(@, i + 1, Len(@))])

\* edit_phone without the final raise: a phone that is not found is ignored
edit_phone_silent(rec, old_phone, new_phone) ==
  IF FirstIndex(rec.phones, old_phone) # 0
    THEN Raise("AttributeError", rec)
    ELSE Ok(rec)

\* Record.edit_phone.  For the first phone equal to old_phone the loop calls
\* p.set_value(new_phone); Field and Phone define no set_value, so the call
\* raises AttributeError before phone_exists is set.  With no such phone the
\* loop ends and ValueError is raised.
edit_phone(rec, old_phone, new_phone) ==
  IF FirstIndex(rec.phones, old_phone) # 0
    THEN Raise("AttributeError", rec)
    ELSE Raise("ValueError", rec)

\* Record.find_phone: the phone found, or None
find_phone(rec, phone_number) ==
  IF FirstIndex(rec.phones, phone_number) # 0
    THEN rec.phones[FirstIndex(rec.phones, phone_number)]
    ELSE None

\* Record.edit_record, called on a Record: self.data is no attribute of a
\* Record, so the first line of the body raises AttributeError.
edit_record(rec, name, new_name, new_birthday, new_phones, new_email) ==
  Raise("AttributeError", rec)

\* Field.value setter, as Name, Phone and Email inherit it: no validation
Field_set_value(old, new_value) == Ok(new_value)

\* Birthday.value setter: strptime first
Birthday_set_value(old, new_value) ==
  IF ~BirthdayOk(new_value) THEN Raise("ValueError", old) ELSE Ok(new_value)

(***************************************************************************)
(* AddressBook: the dict.                                                  *)
(***************************************************************************)
Keys(d) == {d[i].key : i \in 1..Len(d)}

KeyIndex(d, key) == CHOOSE i \in 1..Len(d) : d[i].key = key

\* self.data[key], for a key of the dict
Get(d, key) == d[KeyIndex(d, key)].rec

\* UserDict.__setitem__: self.data[key] = item.  A key already present keeps
\* its place in the order.
setitem(d, key, item) ==
  IF key \in Keys(d)
    THEN [d EXCEPT ![KeyIndex(d, key)].rec = item]
    ELSE Append(d, [key |-> key, rec |-> item])

\* UserDict.__delitem__: del self.data[key], for a key of the dict
delitem(d, key) ==
  LET i == KeyIndex(d, key)
  IN SubSeq(d, 1, i - 1) \o SubSeq(d, i + 1, Len(d))

\* AddressBook.find: self.data.get(name)
find(d, name) == IF name \in Keys(d) THEN <<Get(d, name)>> ELSE <<>>

\* AddressBook.add_record
add_record(d, record) == setitem(d, record.name, record)

\* AddressBook.delete, the second definition of the class body, which is the
\* one the class keeps: super().delete(name) raises AttributeError, since
\* UserDict defines no delete, and _save_to_db is not reached.
delete(d, name) == [exc |-> "AttributeError", data |-> d, saved |-> FALSE]

(***************************************************************************)
(* AddressBook: the contacts table.                                        *)
(***************************************************************************)
\* ', '.join(str(phone) for phone in phones)
RECURSIVE join(_)
join(phones) ==
  IF phones = <<>> THEN <<>>
  ELSE IF Len(phones) = 1 THEN phones[1]
  ELSE phones[1] \o <<",", " ">> \o join(Tail(phones))

\* The first i with s[i], s[i + 1] = ', ', or 0
SepIndex(s) ==
  IF \E i \in 1..(Len(s) - 1) : s[i] = "," /\ s[i + 1] = " "
    THEN CHOOSE i \in 1..(Len(s) - 1) :
           /\ s[i] = "," /\ s[i + 1] = " "
           /\ \A j \in 1..(i - 1) : ~(s[j] = "," /\ s[j + 1] = " ")
    ELSE 0

\* s.split(', ')
RECURSIVE split(_)
split(s) ==
  IF SepIndex(s) = 0 THEN <<s>>
  ELSE <<Slice(s, 1, SepIndex(s) - 1)>>
         \o split(Slice(s, SepIndex(s) + 2, Len(s)))

\* The row _save_to_db writes for a record.  An Email or Birthday object is
\* true whatever its value, an empty list of phones is false.
RowOf(record) ==
  [name |-> record.name,
   phones |-> IF record.phones # <<>> THEN join(record.phones) ELSE None,
   email |-> record.email,
   birthday |-> record.birthday]

\* an INSERT that keeps the row of the same name
InsertOnly(table, row) == Append(table, row)

\* INSERT OR REPLACE INTO contacts: the row of the same name is deleted and
\* the new row is inserted after the others.
InsertOrReplace(table, row) ==
  SelectSeq(table, LAMBDA r : r.name # row.name) \o <<row>>

\* AddressBook._save_to_db: one INSERT OR REPLACE per record of the dict, in
\* its order, then the commit
RECURSIVE SaveFrom(_, _, _)
SaveFrom(d, i, table) ==
  IF i > Len(d) THEN table
  ELSE SaveFrom(d, i + 1, InsertOrReplace(table, RowOf(d[i].rec)))

save_to_db(d, table) == SaveFrom(d, 1, table)

\* The body of _load_from_db's loop for one row: the exception it raises
\* ("None" when it completes) and the Record it stores under the row's name.
\* Email(email) and Birthday(birthday) are built from the columns, and the
\* objects, not their values, are passed on to Record().
LoadRow(row) ==
  LET phones == IF row.phones # None /\ row.phones # <<>>
                  THEN split(row.phones) ELSE <<>>
      emailExc == IF Truthy(Arg(row.email)) THEN EmailInit(Arg(row.email)) ELSE "None"
      email == IF Truthy(Arg(row.email)) THEN FieldObj(row.email) ELSE NoneArg
      bdayExc == IF Truthy(Arg(row.birthday))
                   THEN BirthdayInit(Arg(row.birthday)) ELSE "None"
      birthday == IF Truthy(Arg(row.birthday)) THEN FieldObj(row.birthday) ELSE NoneArg
      contact == Record__init__(row.name, <<>>, email, birthday)
  IN IF emailExc # "None" THEN Raise(emailExc, contact.rec)
     ELSE IF bdayExc # "None" THEN Raise(bdayExc, contact.rec)
     ELSE IF contact.exc # "None" THEN contact
     ELSE IF \E i \in 1..Len(phones) : ~PhoneOk(phones[i])
       THEN Raise("ValueError", contact.rec)
     ELSE Ok([contact.rec EXCEPT !.phones = phones])

\* AddressBook._load_from_db: the rows in order; the first exception ends
\* the call with the records of the earlier rows already in the dict.
RECURSIVE LoadFrom(_, _, _)
LoadFrom(d, i, table) ==
  IF i > Len(table) THEN [exc |-> "None", data |-> d]
  ELSE IF LoadRow(table[i]).exc # "None"
    THEN [exc |-> LoadRow(table[i]).exc, data |-> d]
  ELSE LoadFrom(setitem(d, table[i].name, LoadRow(table[i]).rec), i + 1, table)

load_from_db(d, table) == LoadFrom(d, 1, table)

(***************************************************************************)
(* The values the callers pass.                                            *)
(***************************************************************************)
Jo == <<"J", "o">>

Al == <<"A", "l">>

Blank == <<" ">>

Phone1 == <<"1", "2", "3", "4", "5", "6", "7", "8", "9", "0">>

Phone2 == <<"0", "9", "8", "7", "6", "5", "4", "3", "2", "1">>

\* nine digits
PhoneShort == <<"1", "2", "3", "4", "5", "6", "7", "8", "9">>

\* ten characters, not all digits
PhoneAlpha == <<"1", "2", "3", "4", "5", "a", "b", "c", "d", "e">>

Email1 == <<"a", "b", "@", "c", "d", ".", "e", "f">>

\* one character before the @
EmailBad == <<"a", "@", "c", "d", ".", "e", "f">>

Bday1 == <<"1", "9", "9", "0", "-", "0", "1", "-", "0", "1">>

Bday2 == <<"2", "0", "0", "0", "-", "0", "2", "-", "2", "9">>

\* 30 February
BdayBad == <<"1", "9", "9", "0", "-", "0", "2", "-", "3", "0">>

Names == {Jo, Al, Blank}

Phones == {Phone1, Phone2, PhoneAlpha}

Emails == {Email1, EmailBad, <<>>}

Birthdays == {Bday1, Bday2, BdayBad}

\* The lists of phones a Record is constructed with
PhoneLists == {<<>>, <<Phone1>>, <<Phone1, Phone2>>, <<Phone1, PhoneShort>>}

\* The valid values the book-level callers pass
BookNames == {Jo, Al}

\* <<phones, email, birthday>>: a record with none of them, and one with
\* each of them
BookFields ==
  {<<<<>>, None, None>>,
   <<<<Phone1, Phone2>>, None, None>>,
   <<<<Phone1>>, Email1, None>>,
   <<<<>>, None, Bday1>>}

\* A call: its name, the exception it raised ("None" for a normal return),
\* its str arguments a and b and its str result ret.  A call with an int
\* argument has it in n, one that returns or yields records has them in out,
\* as lists of their positions in the dict, and conn is the state, when the
\* call ends, of the database connection it opened.
Call(op, exc, a, b, ret) ==
  [op |-> op, exc |-> exc, a |-> a, b |-> b, ret |-> ret,
   n |-> 0, out |-> <<>>, conn |-> "closed"]

(***************************************************************************)
(* Init: no Record built yet, an AddressBook just constructed on a new     *)
(* database file (its table created, empty).                               *)
(***************************************************************************)
Init ==
  /\ recs = <<>>
  /\ data = <<>>
  /\ rows = <<>>
  /\ last = Call("AddressBook", "None", None, None, None)

(***************************************************************************)
(* The calls on a Record a caller holds.                                   *)
(***************************************************************************)
\* r = Record(name, phones, email, birthday)
NewRecord(name, phones, email, birthday) ==
  LET r == Record__init__(name, phones, Arg(email), Arg(birthday))
  IN /\ recs = <<>>
     /\ recs' = IF r.exc = "None" THEN <<r.rec>> ELSE recs
     /\ last' = Call("Record", r.exc, name, None, None)
     /\ UNCHANGED <<data, rows>>

\* r.add_phone(phone)
AddPhone(phone) ==
  /\ recs # <<>>
  /\ Len(recs[1].phones) < MaxPhones
  /\ recs' = <<add_phone(recs[1], phone).rec>>
  /\ last' = Call("add_phone", add_phone(recs[1], phone).exc, phone, None, None)
  /\ UNCHANGED <<data, rows>>

\* r.remove_phone(phone)
RemovePhone(phone) ==
  /\ recs # <<>>
  /\ recs' = <<remove_phone(recs[1], phone).rec>>
  /\ last' = Call("remove_phone", remove_phone(recs[1], phone).exc, phone, None, None)
  /\ UNCHANGED <<data, rows>>

\* r.edit_phone(old_phone, new_phone)
EditPhone(old_phone, new_phone) ==
  /\ recs # <<>>
  /\ recs' = <<edit_phone(recs[1], old_phone, new_phone).rec>>
  /\ last' = Call("edit_phone", edit_phone(recs[1], old_phone, new_phone).exc,
                  old_phone, new_phone, None)
  /\ UNCHANGED <<data, rows>>

\* r.find_phone(phone_number)
FindPhone(phone_number) ==
  /\ recs # <<>>
  /\ last' = Call("find_phone", "None", phone_number, None,
                  find_phone(recs[1], phone_number))
  /\ UNCHANGED <<recs, data, rows>>

\* r.edit_record(name, new_name, new_birthday, new_phones, new_email)
EditRecord(name, new_name, new_birthday, new_phones, new_email) ==
  LET r == edit_record(recs[1], name, new_name, new_birthday, new_phones, new_email)
  IN /\ recs # <<>>
     /\ recs' = <<r.rec>>
     /\ last' = Call("edit_record", r.exc, name, new_name, None)
     /\ UNCHANGED <<data, rows>>

\* r.name.value = new_value
SetName(new_value) ==
  LET r == Field_set_value(recs[1].name, new_value)
  IN /\ recs # <<>>
     /\ recs' = <<[recs[1] EXCEPT !.name = r.rec]>>
     /\ last' = Call("name.value", r.exc, new_value, None, None)
     /\ UNCHANGED <<data, rows>>

\* r.phones[0].value = new_value
SetPhone(new_value) ==
  LET r == Field_set_value(recs[1].phones[1], new_value)
  IN /\ recs # <<>>
     /\ recs[1].phones # <<>>
     /\ recs' = <<[recs[1] EXCEPT !.phones[1] = r.rec]>>
     /\ last' = Call("phone.value", r.exc, new_value, None, None)
     /\ UNCHANGED <<data, rows>>

\* r.email.value = new_value; None has no attribute value
SetEmail(new_value) ==
  LET r == IF recs[1].email = None
             THEN Raise("AttributeError", None)
             ELSE Field_set_value(recs[1].email, new_value)
  IN /\ recs # <<>>
     /\ recs' = <<[recs[1] EXCEPT !.email = r.rec]>>
     /\ last' = Call("email.value", r.exc, new_value, None, None)
     /\ UNCHANGED <<data, rows>>

\* r.birthday.value = new_value; None has no attribute value
SetBirthday(new_value) ==
  LET r == IF recs[1].birthday = None
             THEN Raise("AttributeError", None)
             ELSE Birthday_set_value(recs[1].birthday, new_value)
  IN /\ recs # <<>>
     /\ recs' = <<[recs[1] EXCEPT !.birthday = r.rec]>>
     /\ last' = Call("birthday.value", r.exc, new_value, None, None)
     /\ UNCHANGED <<data, rows>>

NextRecord ==
  \/ \E name \in Names, phones \in PhoneLists,
        email \in Emails \cup {None}, birthday \in Birthdays \cup {None} :
       NewRecord(name, phones, email, birthday)
  \/ \E phone \in Phones : AddPhone(phone)
  \/ \E phone \in Phones : RemovePhone(phone)
  \/ \E old_phone \in Phones, new_phone \in Phones : EditPhone(old_phone, new_phone)
  \/ \E phone \in Phones : FindPhone(phone)
  \/ \E new_name \in {None, Al, Blank} :
       EditRecord(recs[1].name, new_name, None, None, None)
  \/ \E v \in Names : SetName(v)
  \/ \E v \in Phones : SetPhone(v)
  \/ \E v \in Emails : SetEmail(v)
  \/ \E v \in Birthdays : SetBirthday(v)

\* The calls on one Record
SpecRecord == Init /\ [][NextRecord]_vars

(***************************************************************************)
(* The calls on the AddressBook.  A record of the book is reached through  *)
(* the book: book.find(key) is the object add_record stored.               *)
(***************************************************************************)
\* book.add_record(Record(name, phones, email, birthday))
AddRecord(name, phones, email, birthday) ==
  LET r == Record__init__(name, phones, Arg(email), Arg(birthday))
  IN /\ r.exc = "None"
     /\ data' = add_record(data, r.rec)
     /\ last' = Call("add_record", "None", name, None, None)
     /\ UNCHANGED <<recs, rows>>

\* book.find(key).name.value = new_value
Rename(key, new_value) ==
  LET r == Field_set_value(Get(data, key).name, new_value)
  IN /\ key \in Keys(data)
     /\ data' = [data EXCEPT ![KeyIndex(data, key)].rec.name = r.rec]
     /\ last' = Call("name.value", r.exc, key, new_value, None)
     /\ UNCHANGED <<recs, rows>>

\* book.delete(name)
Delete(name) ==
  LET r == delete(data, name)
  IN /\ data' = r.data
     /\ rows' = IF r.saved THEN save_to_db(r.data, rows) ELSE rows
     /\ last' = Call("delete", r.exc, name, None, None)
     /\ UNCHANGED recs

\* del book[name], which AddressBook inherits from UserDict: KeyError for a
\* name that is no key
DelItem(name) ==
  /\ data' = IF name \in Keys(data) THEN delitem(data, name) ELSE data
  /\ last' = Call("__delitem__", IF name \in Keys(data) THEN "None" ELSE "KeyError",
                  name, None, None)
  /\ UNCHANGED <<recs, rows>>

\* book._save_to_db()
SaveToDb ==
  /\ rows' = save_to_db(data, rows)
  /\ last' = Call("_save_to_db", "None", None, None, None)
  /\ UNCHANGED <<recs, data>>

\* sqlite3.connect is the first statement of _create_table, _save_to_db
\* and _load_from_db and conn.close() the last one, outside any try or
\* with: a call that raises in between leaves its connection open.
ConnAfter(exc) == IF exc = "None" THEN "closed" ELSE "open"

\* book._load_from_db()
LoadFromDb ==
  /\ data' = load_from_db(data, rows).data
  /\ last' = [Call("_load_from_db", load_from_db(data, rows).exc, None, None, None)
                EXCEPT !.conn = ConnAfter(load_from_db(data, rows).exc)]
  /\ UNCHANGED <<recs, rows>>

\* book.load_from_file(file_name): super().load_from_file raises
\* AttributeError, UserDict defines no load_from_file
LoadFromFile ==
  /\ last' = Call("load_from_file", "AttributeError", None, None, None)
  /\ UNCHANGED <<recs, data, rows>>

\* book = AddressBook(db_file) on the same file: an empty dict, and
\* CREATE TABLE IF NOT EXISTS leaves the rows of the table as they are
NewAddressBook ==
  /\ data' = <<>>
  /\ last' = Call("AddressBook", "None", None, None, None)
  /\ UNCHANGED <<recs, rows>>

Next ==
  \/ \E name \in BookNames, f \in BookFields : AddRecord(name, f[1], f[2], f[3])
  \/ \E key \in BookNames, new_value \in BookNames : Rename(key, new_value)
  \/ \E name \in BookNames : Delete(name)
  \/ \E name \in BookNames : DelItem(name)
  \/ SaveToDb
  \/ LoadFromDb
  \/ LoadFromFile
  \/ NewAddressBook

\* The calls on one AddressBook and its database file
Spec == Init /\ [][Next]_vars

(***************************************************************************)
(* Properties of the calls on the AddressBook (Spec).                      *)
(***************************************************************************)
\* Every field of the record holds a value its class's validator accepts
FieldsValid(rec) ==
  /\ is_valid_name(rec.name)
  /\ \A i \in 1..Len(rec.phones) : PhoneOk(rec.phones[i])
  /\ rec.email # None => Email_is_valid(rec.email)
  /\ rec.birthday # None => BirthdayOk(rec.birthday)

RowNames(table) == {table[i].name : i \in 1..Len(table)}

Records(d) == {d[i].rec : i \in 1..Len(d)}

KeysMatchNames(d) == \A i \in 1..Len(d) : d[i].key = d[i].rec.name

\* C1: after a completed add_record(record) the table holds, with no call
\* of _save_to_db, a row for the record's name that carries the record's
\* phones, email and birthday.
C1_AddResyncs ==
  last.op = "add_record"
    => \E i \in 1..Len(rows) : rows[i] = RowOf(Get(data, last.a))

\* C2: for the book of any reachable state whose records are all valid
\* (stored under their names, the table holding no row of another name),
\* _save_to_db followed by _load_from_db into a new AddressBook on the same
\* table raises nothing and the new book holds, for every record of the
\* book, a record with the same name, phones, email and birthday.
C2_SaveLoadRoundTrip ==
  LET loaded == load_from_db(<<>>, save_to_db(data, rows))
  IN (/\ \A i \in 1..Len(data) : FieldsValid(data[i].rec)
      /\ KeysMatchNames(data)
      /\ RowNames(rows) \subseteq Keys(data))
       => /\ loaded.exc = "None"
          /\ Records(data) \subseteq Records(loaded.data)

\* C3: in every reachable state every key of the dict is the name of the
\* Record it maps to.
C3_KeyIsName == KeysMatchNames(data)

\* C5: delete(name) with name no key of the dict raises nothing and leaves
\* the dict and the rows of the table as they were.
C5_DeleteAbsent ==
  [][(last'.op = "delete" /\ last'.a \notin Keys(data))
     => (last'.exc = "None" /\ data' = data /\ rows' = rows)]_vars

\* C6: delete(name) with name a key of the dict raises nothing; afterwards
\* find(name) is None, the other entries are as they were, and the table
\* has been written from the dict.
C6_DeletePresent ==
  [][(last'.op = "delete" /\ last'.a \in Keys(data))
     => (/\ last'.exc = "None"
         /\ find(data', last'.a) = <<>>
         /\ data' = delitem(data, last'.a)
         /\ rows' = save_to_db(data', rows))]_vars

\* C7: after a _save_to_db that follows the removal of a record from the
\* dict, the names with a row in the table are exactly the keys of the dict
\* (here for a dict whose keys are its records' names).
C7_SaveMatchesMemory ==
  [][(/\ last.op = "__delitem__"
      /\ last.exc = "None"
      /\ last'.op = "_save_to_db"
      /\ KeysMatchNames(data'))
     => RowNames(rows') = Keys(data')]_vars

(***************************************************************************)
(* Properties of the calls on one Record (SpecRecord).                     *)
(***************************************************************************)
\* The call c assigns to a field's value, and the value is one the field's
\* validator refuses
InvalidAssignment(c) ==
  \/ c.op = "name.value" /\ ~is_valid_name(c.a)
  \/ c.op = "phone.value" /\ ~PhoneOk(c.a)
  \/ c.op = "email.value" /\ ~Email_is_valid(c.a)
  \/ c.op = "birthday.value" /\ ~BirthdayOk(c.a)

\* C4: in every reachable state every Field value satisfies its variant's
\* validator (Name non-blank, Phone ten digits, Email empty or matching,
\* Birthday a date), and the last assignment of an invalid value to a
\* Field of an existing object was refused with ValueError.
C4_FieldValuesAlwaysValid ==
  /\ \A i \in 1..Len(recs) : FieldsValid(recs[i])
  /\ (InvalidAssignment(last) /\ last.exc # "AttributeError")
       => last.exc = "ValueError"

\* C8: edit_phone(old, new) on a record that holds old, with new a valid
\* number other than old and not yet in the record, returns normally and
\* replaces the first old by new in place: find_phone(old) is then None,
\* find_phone(new) is the new phone, and the other phones keep their places.
C8_EditPhoneReplaces ==
  [][(/\ last'.op = "edit_phone"
      /\ recs # <<>>
      /\ FirstIndex(recs[1].phones, last'.a) # 0
      /\ PhoneOk(last'.b)
      /\ last'.b # last'.a
      /\ FirstIndex(recs[1].phones, last'.b) = 0)
     => (/\ last'.exc = "None"
         /\ recs'[1].phones =
              [recs[1].phones EXCEPT ![FirstIndex(recs[1].phones, last'.a)] = last'.b]
         /\ find_phone(recs'[1], last'.a) = None
         /\ find_phone(recs'[1], last'.b) = last'.b)]_vars

\* C9: edit_phone(old, new) on a record with no phone equal to old raises
\* ValueError to the caller and leaves the record's phones as they were.
C9_EditPhoneNotFound ==
  [][(/\ last'.op = "edit_phone"
      /\ recs # <<>>
      /\ FirstIndex(recs[1].phones, last'.a) = 0)
     => (/\ last'.exc = "ValueError"
         /\ recs'[1].phones = recs[1].phones)]_vars

\* An edit_phone that found no phone equal to its first argument, on a
\* record that holds other phones.
C9_Witness ==
  /\ last.op = "edit_phone"
  /\ last.exc = "ValueError"
  /\ recs # <<>>
  /\ Len(recs[1].phones) = 2
  /\ FirstIndex(recs[1].phones, last.a) = 0

\* The call c is a mutation of the record rec with a value that fails the
\* validation of the field it is for
InvalidMutation(c, rec) ==
  \/ c.op = "add_phone" /\ ~PhoneOk(c.a)
  \/ c.op = "edit_phone" /\ FirstIndex(rec.phones, c.a) # 0 /\ ~PhoneOk(c.b)
  \/ c.op = "edit_record" /\ c.b # None /\ ~is_valid_name(c.b)
  \/ c.op = "name.value" /\ ~is_valid_name(c.a)
  \/ c.op = "phone.value" /\ ~PhoneOk(c.a)
  \/ c.op = "email.value" /\ rec.email # None /\ ~Email_is_valid(c.a)
  \/ c.op = "birthday.value" /\ rec.birthday # None /\ ~BirthdayOk(c.a)

\* C10: a mutation of a Record with a value that fails validation raises
\* the validation error (ValueError) and leaves the Record as it was.
C10_InvalidMutationRejected ==
  [][(recs # <<>> /\ InvalidMutation(last', recs[1]))
     => (last'.exc = "ValueError" /\ recs' = recs)]_vars

(***************************************************************************)
(* The queries of the AddressBook and of its records.  A record returned   *)
(* or yielded is named by its position in the dict.                        *)
(***************************************************************************)
\* str.lower, on the letters used here
LowerChar(c) ==
  CASE c = "A" -> "a" [] c = "B" -> "b" [] c = "J" -> "j" [] c = "O" -> "o"
    [] OTHER -> c

lower(s) == [i \in 1..Len(s) |-> LowerChar(s[i])]

\* sub in s
Contains(s, sub) ==
  \E k \in 0..(Len(s) - Len(sub)) : Slice(s, k + 1, k + Len(sub)) = sub

\* AddressBook.search: for each record in the dict's order, the record is
\* appended when the value is in its name, caseless, and appended when the
\* value is in one of its phones (once, the phone loop breaks).
RECURSIVE SearchFrom(_, _, _)
SearchFrom(d, i, value) ==
  IF i > Len(d) THEN <<>>
  ELSE (IF Contains(lower(d[i].rec.name), lower(value)) THEN <<i>> ELSE <<>>)
       \o (IF \E k \in 1..Len(d[i].rec.phones) : Contains(d[i].rec.phones[k], value)
             THEN <<i>> ELSE <<>>)
       \o SearchFrom(d, i + 1, value)

\* search with the name compared as it is written
RECURSIVE SearchCasedFrom(_, _, _)
SearchCasedFrom(d, i, value) ==
  IF i > Len(d) THEN <<>>
  ELSE (IF Contains(d[i].rec.name, value) THEN <<i>> ELSE <<>>)
       \o (IF \E k \in 1..Len(d[i].rec.phones) : Contains(d[i].rec.phones[k], value)
             THEN <<i>> ELSE <<>>)
       \o SearchCasedFrom(d, i + 1, value)

search_cased(d, value) == SearchCasedFrom(d, 1, value)

search(d, value) == SearchFrom(d, 1, value)

\* AddressBook.__iter__ with chunk_size None.  The body holds a yield, so
\* the call makes a generator; return iter(records) ends it at once with
\* nothing yielded.
iter_records(d) == <<>>

\* a slice that takes one record more than chunk_size
Page_long(n, current, chunk_size) ==
  LET stop == IF current + chunk_size + 1 < n THEN current + chunk_size + 1 ELSE n
  IN [k \in 1..(stop - current) |-> current + k]

\* list(records)[current : current + chunk_size], for n records
Page(n, current, chunk_size) ==
  LET stop == IF current + chunk_size < n THEN current + chunk_size ELSE n
  IN [k \in 1..(stop - current) |-> current + k]

\* The while loop of AddressBook.__iter__ run for at most fuel iterations:
\* the pages yielded, and whether the loop has ended
RECURSIVE IterLoop(_, _, _, _)
IterLoop(n, current, chunk_size, fuel) ==
  IF ~(current < n) THEN [pages |-> <<>>, done |-> TRUE]
  ELSE IF fuel = 0 THEN [pages |-> <<>>, done |-> FALSE]
  ELSE [pages |-> <<Page(n, current, chunk_size)>>
                    \o IterLoop(n, current + chunk_size, chunk_size, fuel - 1).pages,
        done |-> IterLoop(n, current + chunk_size, chunk_size, fuel - 1).done]

\* AddressBook.__iter__ with an int chunk_size, consumed to its end or for
\* one iteration per record
iter_chunks(d, chunk_size) == IterLoop(Len(d), 0, chunk_size, Len(d))

\* The days of the months before month m of year y
RECURSIVE DaysBeforeMonth(_, _)
DaysBeforeMonth(y, m) ==
  IF m = 1 THEN 0 ELSE DaysBeforeMonth(y, m - 1) + DaysInMonth(y, m - 1)

\* date.toordinal
toordinal(date) ==
  LET y == date[1] - 1
  IN 365 * y + (y \div 4) - (y \div 100) + (y \div 400)
       + DaysBeforeMonth(date[1], date[2]) + date[3]

\* Record.days_to_birthday with datetime.now().date() = today: the year of
\* the next birthday by comparing (month, day), then date.replace, which
\* raises ValueError for a day the month does not have in that year.
\* ret is <<days>>, or <<>> for None.
days_to_birthday(rec, today) ==
  IF rec.birthday = None THEN [exc |-> "None", ret |-> <<>>]
  ELSE LET birthday_date == strptime(rec.birthday)
           later == \/ today[2] > birthday_date[2]
                    \/ today[2] = birthday_date[2] /\ today[3] > birthday_date[3]
           next_birthday_year == IF later THEN today[1] + 1 ELSE today[1]
       IN IF birthday_date[3] > DaysInMonth(next_birthday_year, birthday_date[2])
            THEN [exc |-> "ValueError", ret |-> <<>>]
            ELSE [exc |-> "None",
                  ret |-> <<toordinal(<<next_birthday_year, birthday_date[2],
                                        birthday_date[3]>>) - toordinal(today)>>]

\* AddressBook.display_birthdays_in_period: the records printed, in the
\* dict's order; an exception of days_to_birthday ends the call after the
\* records printed so far.
RECURSIVE BirthdaysFrom(_, _, _, _)
BirthdaysFrom(d, i, days, today) ==
  IF i > Len(d) THEN [exc |-> "None", printed |-> <<>>]
  ELSE LET r == days_to_birthday(d[i].rec, today)
           rest == BirthdaysFrom(d, i + 1, days, today)
       IN IF r.exc # "None" THEN [exc |-> r.exc, printed |-> <<>>]
          ELSE IF r.ret # <<>> /\ 0 <= r.ret[1] /\ r.ret[1] <= days
            THEN [exc |-> rest.exc, printed |-> <<i>> \o rest.printed]
            ELSE rest

display_birthdays_in_period(d, days, today) == BirthdaysFrom(d, 1, days, today)

(***************************************************************************)
(* The queries as steps on the AddressBook, and the specification that     *)
(* runs them between add_record and _save_to_db.                           *)
(***************************************************************************)
\* a name with a digit in it
A1 == <<"A", "1">>

QueryNames == {Jo, A1, Al}

\* <<name, phones, email, birthday>>: Jo with two phones or with a birthday,
\* A1 with a phone and a birthday on 29 February, Al with a phone
QueryRecords ==
  {<<Jo, <<Phone1, Phone2>>, None, None>>,
   <<Jo, <<>>, None, Bday1>>,
   <<A1, <<Phone1>>, None, Bday2>>,
   <<Al, <<Phone2>>, None, None>>}

\* The values searched for: a name in the other case, a digit, the empty
\* str, a whole phone
SearchValues == {<<"j", "O">>, <<"1">>, <<>>, Phone2}

\* The dates datetime.now() gives: the day before, the day of and the day
\* after 1 January of a leap year, and 1 March of that year
Todays ==
  {<<"2", "0", "2", "7", "-", "1", "2", "-", "3", "1">>,
   <<"2", "0", "2", "8", "-", "0", "1", "-", "0", "1">>,
   <<"2", "0", "2", "8", "-", "0", "1", "-", "0", "2">>,
   <<"2", "0", "2", "8", "-", "0", "3", "-", "0", "1">>}

\* The periods display_birthdays_in_period is asked for
Periods == {1, 60}

MaxChunk == 3

\* book.pop(name, None) in the place of find
Find_pop(name) ==
  /\ data' = IF name \in Keys(data) THEN delitem(data, name) ELSE data
  /\ last' = [Call("find", "None", name, None, None)
                EXCEPT !.out = IF find(data, name) # <<>>
                                 THEN <<<<KeyIndex(data, name)>>>> ELSE <<>>]
  /\ UNCHANGED <<recs, rows>>

\* book.find(name)
Find(name) ==
  /\ last' = [Call("find", "None", name, None, None)
                EXCEPT !.out = IF find(data, name) # <<>>
                                 THEN <<<<KeyIndex(data, name)>>>> ELSE <<>>]
  /\ UNCHANGED <<recs, data, rows>>

\* book.search(value)
Search(value) ==
  /\ last' = [Call("search", "None", value, None, None)
                EXCEPT !.out = <<search(data, value)>>]
  /\ UNCHANGED <<recs, data, rows>>

\* book.find(name).find_phone(phone_number), for a name of the book
BookFindPhone(name, phone_number) ==
  /\ name \in Keys(data)
  /\ last' = Call("find_phone", "None", name, phone_number,
                  find_phone(Get(data, name), phone_number))
  /\ UNCHANGED <<recs, data, rows>>

\* book.find(name).days_to_birthday() on the day today, for a name of the
\* book; an int result is the one item of out
DaysToBirthday(name, today) ==
  LET r == days_to_birthday(Get(data, name), strptime(today))
  IN /\ name \in Keys(data)
     /\ last' = [Call("days_to_birthday", r.exc, name, today, None)
                   EXCEPT !.out = IF r.ret # <<>> THEN <<r.ret>> ELSE <<>>]
     /\ UNCHANGED <<recs, data, rows>>

\* book.display_birthdays_in_period(days) on the day today
DisplayBirthdays(days, today) ==
  LET r == display_birthdays_in_period(data, days, strptime(today))
  IN /\ last' = [Call("display_birthdays_in_period", r.exc, None, today, None)
                   EXCEPT !.n = days, !.out = <<r.printed>>]
     /\ UNCHANGED <<recs, data, rows>>

\* list(book): each record yielded is one item of out
Iterate ==
  /\ last' = [Call("__iter__", "None", None, None, None)
                EXCEPT !.out = iter_records(data)]
  /\ UNCHANGED <<recs, data, rows>>

\* list(book.__iter__(chunk_size)): each page yielded is one item of out;
\* exc is "Running" when the loop has not ended
IterateChunks(chunk_size) ==
  LET r == iter_chunks(data, chunk_size)
  IN /\ last' = [Call("__iter__", IF r.done THEN "None" ELSE "Running",
                      None, None, None)
                   EXCEPT !.n = chunk_size, !.out = r.pages]
     /\ UNCHANGED <<recs, data, rows>>

NextQuery ==
  \/ \E r \in QueryRecords : AddRecord(r[1], r[2], r[3], r[4])
  \/ SaveToDb
  \/ \E name \in QueryNames : Find(name)
  \/ \E value \in SearchValues : Search(value)
  \/ \E name \in QueryNames, phone_number \in {Phone1, Phone2} :
       BookFindPhone(name, phone_number)
  \/ \E name \in QueryNames, today \in Todays : DaysToBirthday(name, today)
  \/ \E days \in Periods, today \in Todays : DisplayBirthdays(days, today)
  \/ Iterate
  \/ \E chunk_size \in 1..MaxChunk : IterateChunks(chunk_size)

SpecQuery == Init /\ [][NextQuery]_vars

(***************************************************************************)
(* Properties of the queries.                                              *)
(***************************************************************************)
Items(s) == {s[i] : i \in 1..Len(s)}

\* The positions of the dict, in its order
Positions(d) == [i \in 1..Len(d) |-> i]

RECURSIVE Flatten(_)
Flatten(pages) ==
  IF pages = <<>> THEN <<>> ELSE Head(pages) \o Flatten(Tail(pages))

\* value is in the name of rec, caseless, or in one of its phones
Matches(rec, value) ==
  \/ Contains(lower(rec.name), lower(value))
  \/ \E k \in 1..Len(rec.phones) : Contains(rec.phones[k], value)

\* C11: search(value) returns a record of the book if and only if value is
\* in the record's name, caseless, or in one of its phones; find(name)
\* returns the record added under name.
C11_SearchReturnsMatches ==
  /\ last.op = "search"
       => \A i \in 1..Len(data) :
            i \in Items(last.out[1]) <=> Matches(data[i].rec, last.a)
  /\ last.op = "find" /\ last.a \in Keys(data)
       => /\ Len(last.out) = 1
          /\ data[last.out[1][1]].rec.name = last.a

\* search("jO") has returned the record named Jo
C11_Witness ==
  /\ last.op = "search"
  /\ last.a = <<"j", "O">>
  /\ \E i \in Items(last.out[1]) : data[i].rec.name = Jo

\* C12: no record is twice in the list search(value) returns.
C12_SearchNoDuplicates ==
  last.op = "search"
    => \A j, k \in 1..Len(last.out[1]) :
         j # k => last.out[1][j] # last.out[1][k]

\* C13: list(book), chunk_size None, is the records of the dict, each once,
\* in the dict's order.
C13_IterateYieldsAll ==
  last.op = "__iter__" /\ last.n = 0
    => last.out = [i \in 1..Len(data) |-> <<i>>]

\* C14: with a chunk_size of 1 or more the iteration ends, each page holds
\* 1 to chunk_size records and the pages, one after the other, are the
\* records of the dict in its order.
C14_ChunksPartition ==
  last.op = "__iter__" /\ last.n > 0
    => /\ last.exc = "None"
       /\ \A k \in 1..Len(last.out) :
            Len(last.out[k]) >= 1 /\ Len(last.out[k]) <= last.n
       /\ Flatten(last.out) = Positions(data)

\* three records iterated by pages of two: a full page, then a page of one
C14_Witness ==
  /\ last.op = "__iter__"
  /\ last.n = 2
  /\ Len(data) = 3
  /\ last.out = <<<<1, 2>>, <<3>>>>

\* The days from the date today to the birthday's month and day in year y
DaysUntil(birthday_date, y, today) ==
  toordinal(<<y, birthday_date[2], birthday_date[3]>>) - toordinal(today)

\* days is the count for the birthday seen from today: not negative, 0
\* when the birthday's month and day are today's, 1 when they are
\* tomorrow's, the days to next year's birthday when they were yesterday's
CountAsOf(days, birthday_date, today) ==
  /\ days >= 0
  /\ today[2] = birthday_date[2] /\ today[3] = birthday_date[3] => days = 0
  /\ (\E y \in {today[1], today[1] + 1} :
        /\ birthday_date[3] <= DaysInMonth(y, birthday_date[2])
        /\ DaysUntil(birthday_date, y, today) = 1)
       => days = 1
  /\ (/\ birthday_date[3] <= DaysInMonth(today[1], birthday_date[2])
      /\ DaysUntil(birthday_date, today[1], today) = -1
      /\ birthday_date[3] <= DaysInMonth(today[1] + 1, birthday_date[2]))
       => days = DaysUntil(birthday_date, today[1] + 1, today)

\* C15: for a record with a birthday, days_to_birthday() raises nothing and
\* returns the count of days to the next birthday, 29 February included.
C15_DaysToBirthday ==
  last.op = "days_to_birthday" /\ Get(data, last.a).birthday # None
    => /\ last.exc = "None"
       /\ Len(last.out) = 1
       /\ CountAsOf(last.out[1][1], strptime(Get(data, last.a).birthday),
                    strptime(last.b))

\* C18: display_birthdays_in_period(days) prints, in the dict's order and
\* once each, the records that have a birthday and whose days_to_birthday
\* is in 0..days, and no other record.
C18_BirthdaysInPeriod ==
  last.op = "display_birthdays_in_period"
    => /\ last.exc = "None"
       /\ last.out[1] =
            SelectSeq(Positions(data),
                      LAMBDA i :
                        LET r == days_to_birthday(data[i].rec, strptime(last.b))
                        IN /\ data[i].rec.birthday # None
                           /\ r.exc = "None"
                           /\ r.ret # <<>>
                           /\ 0 <= r.ret[1] /\ r.ret[1] <= last.n)

QueryOps ==
  {"find", "search", "find_phone", "days_to_birthday",
   "display_birthdays_in_period", "__iter__"}

\* C20: find, search, find_phone, days_to_birthday,
\* display_birthdays_in_period and __iter__ leave the dict, its records and
\* the rows of the table as they were.
C20_QueriesChangeNothing ==
  [][last'.op \in QueryOps => data' = data /\ rows' = rows]_vars

\* a search that has returned records of a book whose table holds rows
C20_Witness ==
  /\ last.op = "search"
  /\ Len(last.out[1]) >= 2
  /\ Len(rows) >= 2

(***************************************************************************)
(* Properties of _save_to_db, checked under Spec.                          *)
(***************************************************************************)
\* C17: after _save_to_db, with the dict as it is, one more _save_to_db
\* leaves the rows of the table, their order and their columns as they are.
C17_SaveIdempotent ==
  last.op = "_save_to_db" => save_to_db(data, rows) = rows

\* _save_to_db has written two records over older rows
C17_Witness ==
  /\ last.op = "_save_to_db"
  /\ Len(data) = 2
  /\ Len(rows) >= 2
  /\ rows[1] # RowOf(data[1].rec)

(***************************************************************************)
(* _load_from_db on rows that hold a value its validator refuses.  Such a  *)
(* row is written by _save_to_db after the email of a record of the book   *)
(* was assigned through the Field setter, which validates nothing.         *)
(***************************************************************************)
\* <<phones, email, birthday>>: a phone, or an email
LoadFields == {<<<<Phone1>>, None, None>>, <<<<>>, Email1, None>>}

\* book.find(name).email.value = new_value, for a name of the book: None
\* has no attribute value, and the setter of Field assigns what it is given
SetBookEmail(name, new_value) ==
  LET rec == Get(data, name)
      r == IF rec.email = None
             THEN Raise("AttributeError", None)
             ELSE Field_set_value(rec.email, new_value)
  IN /\ name \in Keys(data)
     /\ data' = [data EXCEPT ![KeyIndex(data, name)].rec.email = r.rec]
     /\ last' = Call("email.value", r.exc, name, new_value, None)
     /\ UNCHANGED <<recs, rows>>

NextLoad ==
  \/ \E name \in BookNames, f \in LoadFields : AddRecord(name, f[1], f[2], f[3])
  \/ \E name \in BookNames : SetBookEmail(name, EmailBad)
  \/ SaveToDb
  \/ LoadFromDb
  \/ NewAddressBook

SpecLoad == Init /\ [][NextLoad]_vars

\* C16: when _create_table, _save_to_db or _load_from_db ends, by a return
\* or by an exception, the connection it opened is closed.
C16_ConnectionClosed ==
  last.op \in {"AddressBook", "_save_to_db", "_load_from_db"}
    => last.conn = "closed"

\* C19: a _load_from_db that raises ValueError for a row leaves the dict as
\* it was before the call.
C19_LoadAllOrNothing ==
  [][last'.op = "_load_from_db" /\ last'.exc = "ValueError" => data' = data]_vars

====
